---- MODULE Spec2Model ----
(***************************************************************************)
(* Model of the Tokenlay JavaScript SDK: the pure helpers of src/utils.ts  *)
(* and the TokenlayOpenAI facade of src/client.ts.                         *)
(*                                                                         *)
(* JavaScript values are represented as follows.                           *)
(*   string      a TLA+ string; characters are read with SubSeq(s, i, i)   *)
(*   object      a function from property names to values; a property      *)
(*               whose value is undefined and a missing property are the   *)
(*               same for every read the code makes, so an optional        *)
(*               property of non-string type is present in DOMAIN exactly  *)
(*               when it is defined                                        *)
(*   undefined   for string-valued slots (metadata values, ruleId) the     *)
(*               distinguished value `undefined`                           *)
(*   number      an integer for configuration numbers; a record            *)
(*               [nan, num, den] for the numbers parseInt and parseFloat   *)
(*               return (num / den, or NaN)                                *)
(***************************************************************************)
EXTENDS Integers, Sequences, FiniteSets, TLC

VARIABLES
    phase,          \* "uninitialized" | "constructed" | "failed"
    options,        \* the argument of `new TokenlayOpenAI(options)`
    config,         \* this.config (NoObject until constructed)
    openaiClient,   \* this.openaiClient: the arguments `new OpenAI` got
    ctorSteps,      \* the steps the constructor performed, in order
    ctorError,      \* the message of the Error the constructor threw, or ""
    calls,          \* chat.completions.create invocations, in start order
    wrappedCalls,   \* invocations of openaiClient.chat.completions.create
    health,         \* healthCheck invocations, in start order
    fetchCalls,     \* invocations of the global fetch
    updates,        \* updateMetadata / updateProviderKey calls performed
    pure            \* a call of a helper of utils.ts: its arguments, and
                    \* its outcome once it has run

vars == <<phase, options, config, openaiClient, ctorSteps, ctorError,
          calls, wrappedCalls, health, fetchCalls, updates, pure>>

-----------------------------------------------------------------------------
(* Bounds of the model.                                                    *)

MaxCalls == 2
MaxHealth == 1
MaxUpdates == 1
MaxSlashes == 2
MaxGroups == 3
MaxSequence == 2

-----------------------------------------------------------------------------
(* JavaScript value helpers.                                               *)

undefined == "<undefined>"

NoObject == <<>>

Has(obj, key) == key \in DOMAIN obj

\* `!obj[key]` for a string-typed property: missing, undefined or "".
FalsyStr(obj, key) == ~Has(obj, key) \/ obj[key] = undefined \/ obj[key] = ""

\* `!obj[key]` for a number-typed property: missing or 0.
FalsyNum(obj, key) == ~Has(obj, key) \/ obj[key] = 0

\* The one-property object {key: obj[key]} if the property is defined.
Pick(obj, key) == IF Has(obj, key) THEN key :> obj[key] ELSE NoObject

\* Object.assign(target, source) / {...target, ...source}: source wins.
ObjectAssign(target, source) == source @@ target

\* The object without one property: `const {key, ...rest} = obj`.
Rest(obj, key) == [k \in DOMAIN obj \ {key} |-> obj[k]]

-----------------------------------------------------------------------------
(* src/utils.ts                                                            *)

DEFAULT_TOKENLAY_BASE_URL == "https://api.tokenlay.com"

DEFAULT_PROVIDER_API_BASE == "https://api.openai.com/v1"

HeaderPrefix == "x-tokenlay-"

\* Variant: a header for every key, the undefined ones included.
metadataToHeaders_KeepsUndefined(metadata) ==
    LET keys == DOMAIN metadata
        names == {HeaderPrefix \o k : k \in keys}
    IN  [n \in names |-> metadata[CHOOSE k \in keys : HeaderPrefix \o k = n]]

\* for (const [key, value] of Object.entries(metadata))
\*   if (value !== undefined) headers[`x-tokenlay-${key}`] = value;
metadataToHeaders(metadata) ==
    LET keys == {k \in DOMAIN metadata : metadata[k] # undefined}
        names == {HeaderPrefix \o k : k \in keys}
    IN  [n \in names |-> metadata[CHOOSE k \in keys : HeaderPrefix \o k = n]]

\* An argument of mergeHeaders that is undefined rather than a header map.
UndefinedGroup == [undefined |-> TRUE]

\* The loop of mergeHeaders from group i on.  `merged` is the object the
\* function allocated; `groups` are the caller's objects, which
\* Object.assign reads as sources.
RECURSIVE MergeFrom(_, _, _)
MergeFrom(groups, i, merged) ==
    IF i > Len(groups) THEN [merged |-> merged, headerGroups |-> groups]
    ELSE IF groups[i] # UndefinedGroup
    THEN MergeFrom(groups, i + 1, ObjectAssign(merged, groups[i]))
    ELSE MergeFrom(groups, i + 1, merged)

\* Variant: the first defined group is the target of Object.assign, as in
\* Object.assign(...headerGroups), so the caller's object collects the
\* merge.
mergeHeaders_IntoFirstGroup(headerGroups) ==
    LET res == MergeFrom(headerGroups, 1, NoObject)
        defined == {i \in 1..Len(headerGroups) :
                        headerGroups[i] # UndefinedGroup}
        first == CHOOSE i \in defined : \A j \in defined : i <= j
    IN  IF defined = {} THEN res
        ELSE [ merged |-> res.merged,
               headerGroups |->
                   [headerGroups EXCEPT ![first] = res.merged] ]

\* mergeHeaders(...headerGroups): the map it returns and the argument
\* objects as they are when it returns.
mergeHeaders(headerGroups) == MergeFrom(headerGroups, 1, NoObject)

\* Variant: the provider key is checked before the proxy key.
validateConfig_ProviderKeyFirst(cfg) ==
    IF FalsyStr(cfg, "providerApiKey")
    THEN "providerApiKey is required. This should be your OpenAI API key or other provider key."
    ELSE IF FalsyStr(cfg, "tokenlayKey")
    THEN "tokenlayKey is required. Get your free key at https://tokenlay.com"
    ELSE ""

\* validateConfig accepting an empty providerApiKey.
validateConfig_EmptyProviderKeyAccepted(cfg) ==
    IF FalsyStr(cfg, "tokenlayKey")
    THEN "tokenlayKey is required. Get your free key at https://tokenlay.com"
    ELSE IF ~Has(cfg, "providerApiKey")
    THEN "providerApiKey is required. This should be your OpenAI API key or other provider key."
    ELSE ""

\* The error validateConfig throws, "" when it returns normally.
validateConfig(cfg) ==
    IF FalsyStr(cfg, "tokenlayKey")
    THEN "tokenlayKey is required. Get your free key at https://tokenlay.com"
    ELSE IF FalsyStr(cfg, "providerApiKey")
    THEN "providerApiKey is required. This should be your OpenAI API key or other provider key."
    ELSE ""

\* baseUrl.replace(/\/$/, '')
StripTrailingSlash(s) ==
    IF Len(s) > 0 /\ SubSeq(s, Len(s), Len(s)) = "/"
    THEN SubSeq(s, 1, Len(s) - 1)
    ELSE s

\* endpoint.replace(/^\//, '')
StripLeadingSlash(s) ==
    IF Len(s) > 0 /\ SubSeq(s, 1, 1) = "/"
    THEN SubSeq(s, 2, Len(s))
    ELSE s

\* Variant: the endpoint is appended as given.
buildTokenlayUrl_EndpointAsGiven(baseUrl, endpoint) ==
    StripTrailingSlash(baseUrl) \o "/v1/" \o endpoint

buildTokenlayUrl(baseUrl, endpoint) ==
    StripTrailingSlash(baseUrl) \o "/v1/" \o StripLeadingSlash(endpoint)

-----------------------------------------------------------------------------
(* The JavaScript built-ins parseTokenlayHeaders calls: parseInt(s, 10),   *)
(* parseFloat(s) and JSON.parse(s).  A parsed number is num / den with den *)
(* a power of ten in lowest decimal form, den = 0 for +-Infinity, or NaN.  *)

Char(s, i) == SubSeq(s, i, i)

Digits == {"0", "1", "2", "3", "4", "5", "6", "7", "8", "9"}

DigitValue(c) ==
    CASE c = "0" -> 0 [] c = "1" -> 1 [] c = "2" -> 2 [] c = "3" -> 3
      [] c = "4" -> 4 [] c = "5" -> 5 [] c = "6" -> 6 [] c = "7" -> 7
      [] c = "8" -> 8 [] c = "9" -> 9

WhiteSpace == {" ", "\t", "\n", "\r"}

NaN == [nan |-> TRUE, num |-> 0, den |-> 1]

RECURSIVE Normalize(_, _)
Normalize(num, den) ==
    IF den > 1 /\ num % 10 = 0
    THEN Normalize(num \div 10, den \div 10)
    ELSE [nan |-> FALSE, num |-> num, den |-> den]

Num(n) == Normalize(n, 1)

RECURSIVE Pow10(_)
Pow10(n) == IF n = 0 THEN 1 ELSE 10 * Pow10(n - 1)

\* The first index at or after i whose character is not white space.
RECURSIVE SkipWhiteSpace(_, _)
SkipWhiteSpace(s, i) ==
    IF i <= Len(s) /\ Char(s, i) \in WhiteSpace
    THEN SkipWhiteSpace(s, i + 1)
    ELSE i

\* The first index at or after i whose character is not a decimal digit.
RECURSIVE DigitsEnd(_, _)
DigitsEnd(s, i) ==
    IF i <= Len(s) /\ Char(s, i) \in Digits
    THEN DigitsEnd(s, i + 1)
    ELSE i

\* The value of the digits s[i..j-1], read after the value acc.
RECURSIVE DigitsValue(_, _, _, _)
DigitsValue(s, i, j, acc) ==
    IF i >= j THEN acc
    ELSE DigitsValue(s, i + 1, j, 10 * acc + DigitValue(Char(s, i)))

HasSignAt(s, i) == i <= Len(s) /\ Char(s, i) \in {"+", "-"}

\* Variant: the digits after a decimal point are read as well.
parseInt_KeepsFraction(s) ==
    LET i0 == SkipWhiteSpace(s, 1)
        sign == IF i0 <= Len(s) /\ Char(s, i0) = "-" THEN -1 ELSE 1
        i1 == IF HasSignAt(s, i0) THEN i0 + 1 ELSE i0
        j == DigitsEnd(s, i1)
        hasDot == j <= Len(s) /\ Char(s, j) = "."
        k == IF hasDot THEN DigitsEnd(s, j + 1) ELSE j
        fracLen == IF hasDot THEN k - (j + 1) ELSE 0
        mantissa == DigitsValue(s, i1, j, 0) * Pow10(fracLen)
                    + (IF hasDot THEN DigitsValue(s, j + 1, k, 0) ELSE 0)
    IN  IF j = i1 THEN NaN ELSE Normalize(sign * mantissa, Pow10(fracLen))

\* parseInt(s, 10): leading white space, an optional sign, then the longest
\* run of digits; NaN when that run is empty.
parseInt(s) ==
    LET i0 == SkipWhiteSpace(s, 1)
        sign == IF i0 <= Len(s) /\ Char(s, i0) = "-" THEN -1 ELSE 1
        i1 == IF HasSignAt(s, i0) THEN i0 + 1 ELSE i0
        j == DigitsEnd(s, i1)
    IN  IF j = i1 THEN NaN ELSE Num(sign * DigitsValue(s, i1, j, 0))

\* parseFloat(s): leading white space, then the longest prefix that is a
\* StrDecimalLiteral: sign, Infinity or digits [. digits] [e sign digits].
parseFloat(s) ==
    LET i0 == SkipWhiteSpace(s, 1)
        sign == IF i0 <= Len(s) /\ Char(s, i0) = "-" THEN -1 ELSE 1
        i1 == IF HasSignAt(s, i0) THEN i0 + 1 ELSE i0
        j == DigitsEnd(s, i1)
        hasDot == j <= Len(s) /\ Char(s, j) = "."
        k == IF hasDot THEN DigitsEnd(s, j + 1) ELSE j
        intLen == j - i1
        fracLen == IF hasDot THEN k - (j + 1) ELSE 0
        mantissa == DigitsValue(s, i1, j, 0) * Pow10(fracLen)
                    + (IF hasDot THEN DigitsValue(s, j + 1, k, 0) ELSE 0)
        hasE == k <= Len(s) /\ Char(s, k) \in {"e", "E"}
        e1 == IF HasSignAt(s, k + 1) THEN k + 2 ELSE k + 1
        e2 == DigitsEnd(s, e1)
        expSign == IF k + 1 <= Len(s) /\ Char(s, k + 1) = "-" THEN -1 ELSE 1
        exponent == IF hasE /\ e2 > e1
                    THEN expSign * DigitsValue(s, e1, e2, 0)
                    ELSE 0
        shift == exponent - fracLen
    IN  IF intLen = 0 /\ fracLen = 0
        THEN IF i1 + 7 <= Len(s) /\ SubSeq(s, i1, i1 + 7) = "Infinity"
             THEN [nan |-> FALSE, num |-> sign, den |-> 0]
             ELSE NaN
        ELSE IF shift >= 0
             THEN Normalize(sign * mantissa * Pow10(shift), 1)
             ELSE Normalize(sign * mantissa, Pow10(-shift))

\* JSON.parse(s) for JSON texts made of strings without escapes, integers,
\* true, false, null and arrays of these.  A parser state is
\* [ok, next, value]: whether a value was read, the index after it, and
\* the value as a tagged record.
JSONFail == [ok |-> FALSE, next |-> 0, value |-> [type |-> "none"]]

JSONOk(next, value) == [ok |-> TRUE, next |-> next, value |-> value]

\* The index of the closing quote of a string opened before index i, or 0.
RECURSIVE StringEnd(_, _)
StringEnd(s, i) ==
    IF i > Len(s) \/ Char(s, i) = "\\" THEN 0
    ELSE IF Char(s, i) = "\"" THEN i
    ELSE StringEnd(s, i + 1)

StartsWith(s, i, word) ==
    i + Len(word) - 1 <= Len(s) /\ SubSeq(s, i, i + Len(word) - 1) = word

JSONNumberAt(s, i) ==
    LET i1 == IF i <= Len(s) /\ Char(s, i) = "-" THEN i + 1 ELSE i
        j == DigitsEnd(s, i1)
        sign == IF i1 > i THEN -1 ELSE 1
    IN  IF j = i1 \/ (j - i1 > 1 /\ Char(s, i1) = "0")
        THEN JSONFail
        ELSE JSONOk(j, [type |-> "number",
                        number |-> sign * DigitsValue(s, i1, j, 0)])

RECURSIVE JSONValueAt(_, _)
RECURSIVE JSONElementsAt(_, _, _)

\* The value that starts at the first non-white-space index at or after i.
JSONValueAt(s, i) ==
    LET j == SkipWhiteSpace(s, i)
    IN  IF j > Len(s) THEN JSONFail
        ELSE IF Char(s, j) = "\""
        THEN LET e == StringEnd(s, j + 1)
             IN  IF e = 0 THEN JSONFail
                 ELSE JSONOk(e + 1, [type |-> "string",
                                     string |-> SubSeq(s, j + 1, e - 1)])
        ELSE IF Char(s, j) = "["
        THEN LET k == SkipWhiteSpace(s, j + 1)
             IN  IF k <= Len(s) /\ Char(s, k) = "]"
                 THEN JSONOk(k + 1, [type |-> "array", items |-> <<>>])
                 ELSE JSONElementsAt(s, j + 1, <<>>)
        ELSE IF StartsWith(s, j, "true")
        THEN JSONOk(j + 4, [type |-> "boolean", boolean |-> TRUE])
        ELSE IF StartsWith(s, j, "false")
        THEN JSONOk(j + 5, [type |-> "boolean", boolean |-> FALSE])
        ELSE IF StartsWith(s, j, "null")
        THEN JSONOk(j + 4, [type |-> "null"])
        ELSE JSONNumberAt(s, j)

\* The rest of an array after `items`: one more value, then "," or "]".
JSONElementsAt(s, i, items) ==
    LET v == JSONValueAt(s, i)
        k == SkipWhiteSpace(s, v.next)
    IN  IF ~v.ok \/ k > Len(s) THEN JSONFail
        ELSE IF Char(s, k) = ","
        THEN JSONElementsAt(s, k + 1, Append(items, v.value))
        ELSE IF Char(s, k) = "]"
        THEN JSONOk(k + 1, [type |-> "array",
                            items |-> Append(items, v.value)])
        ELSE JSONFail

\* Variant: a parser that yields null for a text it cannot parse.
JSONParse_NoThrow(s) ==
    LET v == JSONValueAt(s, 1)
    IN  IF v.ok /\ SkipWhiteSpace(s, v.next) > Len(s)
        THEN [ok |-> TRUE, value |-> v.value]
        ELSE [ok |-> TRUE, value |-> [type |-> "null"]]

\* JSON.parse(s): [ok |-> FALSE] stands for the SyntaxError it throws.
JSONParse(s) ==
    LET v == JSONValueAt(s, 1)
    IN  IF v.ok /\ SkipWhiteSpace(s, v.next) > Len(s)
        THEN [ok |-> TRUE, value |-> v.value]
        ELSE [ok |-> FALSE]

\* headers[name], undefined when the header is missing.
Header(headers, name) ==
    IF Has(headers, name) THEN headers[name] ELSE undefined

\* Variant: no fallback, a missing header reads as the empty string.
HeaderOr_EmptyFallback(headers, name, fallback) ==
    IF FalsyStr(headers, name) THEN "" ELSE headers[name]

\* headers[name] || fallback
HeaderOr(headers, name, fallback) ==
    IF FalsyStr(headers, name) THEN fallback ELSE headers[name]

\* Variant: a decoder that also keeps every other x-tokenlay- header, under
\* its name without the prefix.
parseTokenlayHeaders_KeepsUnknown(headers) ==
    LET hasWarnings == ~FalsyStr(headers, "x-tokenlay-warnings")
        parsed == IF hasWarnings
                  THEN JSONParse(headers["x-tokenlay-warnings"])
                  ELSE [ok |-> TRUE]
        known == {"x-tokenlay-rule-id", "x-tokenlay-rule-action",
                  "x-tokenlay-limit-exceeded", "x-tokenlay-cost",
                  "x-tokenlay-tokens-used", "x-tokenlay-input-tokens",
                  "x-tokenlay-output-tokens", "x-tokenlay-duration",
                  "x-tokenlay-warnings"}
        others == {n \in DOMAIN headers \ known :
                      StartsWith(n, 1, HeaderPrefix)}
        kept == [k \in {SubSeq(n, Len(HeaderPrefix) + 1, Len(n)) :
                            n \in others} |-> headers[HeaderPrefix \o k]]
        metadata ==
          [ ruleId |-> Header(headers, "x-tokenlay-rule-id"),
            ruleAction |-> HeaderOr(headers, "x-tokenlay-rule-action",
                                    "allow"),
            limitExceeded |->
                Header(headers, "x-tokenlay-limit-exceeded") = "true",
            cost |-> parseFloat(HeaderOr(headers, "x-tokenlay-cost", "0")),
            tokensUsed |->
                parseInt(HeaderOr(headers, "x-tokenlay-tokens-used", "0")),
            inputTokens |->
                parseInt(HeaderOr(headers, "x-tokenlay-input-tokens", "0")),
            outputTokens |->
                parseInt(HeaderOr(headers, "x-tokenlay-output-tokens", "0")),
            duration |->
                parseInt(HeaderOr(headers, "x-tokenlay-duration", "0")) ]
    IN  IF ~parsed.ok THEN [error |-> "SyntaxError"]
        ELSE IF hasWarnings
        THEN ("warnings" :> parsed.value) @@ metadata @@ kept
        ELSE metadata @@ kept

\* parseTokenlayHeaders(headers): the record it returns, or
\* [error |-> "SyntaxError"] when JSON.parse throws.
parseTokenlayHeaders(headers) ==
    LET hasWarnings == ~FalsyStr(headers, "x-tokenlay-warnings")
        parsed == IF hasWarnings
                  THEN JSONParse(headers["x-tokenlay-warnings"])
                  ELSE [ok |-> TRUE]
        metadata ==
          [ ruleId |-> Header(headers, "x-tokenlay-rule-id"),
            ruleAction |-> HeaderOr(headers, "x-tokenlay-rule-action",
                                    "allow"),
            limitExceeded |->
                Header(headers, "x-tokenlay-limit-exceeded") = "true",
            cost |-> parseFloat(HeaderOr(headers, "x-tokenlay-cost", "0")),
            tokensUsed |->
                parseInt(HeaderOr(headers, "x-tokenlay-tokens-used", "0")),
            inputTokens |->
                parseInt(HeaderOr(headers, "x-tokenlay-input-tokens", "0")),
            outputTokens |->
                parseInt(HeaderOr(headers, "x-tokenlay-output-tokens", "0")),
            duration |->
                parseInt(HeaderOr(headers, "x-tokenlay-duration", "0")) ]
    IN  IF ~parsed.ok THEN [error |-> "SyntaxError"]
        ELSE IF hasWarnings
        THEN ("warnings" :> parsed.value) @@ metadata
        ELSE metadata

-----------------------------------------------------------------------------
(* src/client.ts: construction                                             *)

\* this.config = { tokenlayKey: ..., providerApiBase: ... || DEFAULT, ... }
EffectiveConfig(opts) ==
    [ tokenlayKey |-> opts.tokenlayKey,
      providerApiKey |-> opts.providerApiKey,
      providerApiBase |-> IF FalsyStr(opts, "providerApiBase")
                          THEN DEFAULT_PROVIDER_API_BASE
                          ELSE opts.providerApiBase,
      tokenlayBaseUrl |-> IF FalsyStr(opts, "tokenlayBaseUrl")
                          THEN DEFAULT_TOKENLAY_BASE_URL
                          ELSE opts.tokenlayBaseUrl,
      timeout |-> IF FalsyNum(opts, "timeout") THEN 60000 ELSE opts.timeout,
      maxRetries |-> IF FalsyNum(opts, "maxRetries") THEN 2
                     ELSE opts.maxRetries ]
    @@ Pick(opts, "metadata") @@ Pick(opts, "extraHeaders")

\* buildDefaultHeaders assigning the extra headers before the metadata.
buildDefaultHeaders_ExtraBeforeMetadata(cfg) ==
    LET headers == [ n \in {"x-tokenlay-provider-key",
                            "x-tokenlay-provider-base"} |->
                       IF n = "x-tokenlay-provider-key"
                       THEN cfg.providerApiKey
                       ELSE cfg.providerApiBase ]
        withExtra == IF Has(cfg, "extraHeaders")
                     THEN ObjectAssign(headers, cfg.extraHeaders)
                     ELSE headers
    IN  IF Has(cfg, "metadata")
        THEN ObjectAssign(withExtra, metadataToHeaders(cfg.metadata))
        ELSE withExtra

buildDefaultHeaders(cfg) ==
    LET headers == [ n \in {"x-tokenlay-provider-key",
                            "x-tokenlay-provider-base"} |->
                       IF n = "x-tokenlay-provider-key"
                       THEN cfg.providerApiKey
                       ELSE cfg.providerApiBase ]
        withMetadata == IF Has(cfg, "metadata")
                        THEN ObjectAssign(headers,
                                          metadataToHeaders(cfg.metadata))
                        ELSE headers
    IN  IF Has(cfg, "extraHeaders")
        THEN ObjectAssign(withMetadata, cfg.extraHeaders)
        ELSE withMetadata

\* new OpenAI authenticated with the provider key.
NewOpenAI_ProviderKeyAsApiKey(cfg) ==
    [ apiKey |-> cfg.providerApiKey,
      baseURL |-> buildTokenlayUrl(cfg.tokenlayBaseUrl, ""),
      timeout |-> cfg.timeout,
      maxRetries |-> cfg.maxRetries,
      defaultHeaders |-> buildDefaultHeaders(cfg) ]

\* new OpenAI({ apiKey, baseURL, timeout, maxRetries, defaultHeaders })
NewOpenAI(cfg) ==
    [ apiKey |-> cfg.tokenlayKey,
      baseURL |-> buildTokenlayUrl(cfg.tokenlayBaseUrl, ""),
      timeout |-> cfg.timeout,
      maxRetries |-> cfg.maxRetries,
      defaultHeaders |-> buildDefaultHeaders(cfg) ]

\* constructor(options)
Construct ==
    /\ phase = "uninitialized"
    /\ LET err == validateConfig(options)
       IN  IF err # ""
           THEN /\ phase' = "failed"
                /\ ctorError' = err
                /\ ctorSteps' = <<"validateConfig">>
                /\ UNCHANGED <<config, openaiClient>>
           ELSE /\ phase' = "constructed"
                /\ ctorError' = ""
                /\ config' = EffectiveConfig(options)
                /\ openaiClient' = NewOpenAI(EffectiveConfig(options))
                /\ ctorSteps' = <<"validateConfig", "config", "new OpenAI">>
    /\ UNCHANGED pure
    /\ UNCHANGED <<options, calls, wrappedCalls, health, fetchCalls, updates>>

-----------------------------------------------------------------------------
(* src/client.ts: chat.completions.create                                  *)

\* buildRequestHeaders merging the stored global metadata into the call's
\* headers.
buildRequestHeaders_WithGlobalMetadata(params) ==
    LET global == IF Has(config, "metadata")
                  THEN metadataToHeaders(config.metadata)
                  ELSE NoObject
    IN  IF ~Has(params, "metadata")
        THEN global
        ELSE ObjectAssign(global, metadataToHeaders(params.metadata))

\* buildRequestHeaders dropping the per-call metadata.
buildRequestHeaders_Empty(params) == NoObject

\* buildRequestHeaders(metadata), applied to params.metadata: the argument
\* is the params object because `metadata` may be undefined.
buildRequestHeaders(params) ==
    IF ~Has(params, "metadata")
    THEN NoObject
    ELSE metadataToHeaders(params.metadata)

\* The record the facade attaches as response._tokenlay.
AttachedMetadata ==
    [ ruleId |-> undefined,
      ruleAction |-> "allow",
      limitExceeded |-> FALSE,
      cost |-> Num(0),
      tokensUsed |-> Num(0),
      inputTokens |-> Num(0),
      outputTokens |-> Num(0),
      duration |-> Num(0) ]

\* Tagging every response that has a _request_id property, empty or not.
TagResponse_AnyRequestId(response) ==
    IF Has(response, "_request_id")
    THEN ("_tokenlay" :> AttachedMetadata) @@ response
    ELSE response

\* The statements after the await: tag the response when it has a truthy
\* _request_id, and return it.
TagResponse(response) ==
    IF ~FalsyStr(response, "_request_id")
    THEN ("_tokenlay" :> AttachedMetadata) @@ response
    ELSE response

\* export function getTokenlayMetadata(response): response._tokenlay || null
Null == [null |-> TRUE]

getTokenlayMetadata(response) ==
    IF Has(response, "_tokenlay") THEN response._tokenlay ELSE Null

\* Variant: the call's headers are assigned into the default headers of
\* the wrapped client, where they stay.
CreateStart_MetadataSticks(params) ==
    /\ phase = "constructed"
    /\ Len(calls) < MaxCalls
    /\ LET openaiParams == Rest(params, "metadata")
           requestHeaders == buildRequestHeaders(params)
       IN  /\ openaiClient' =
                  [openaiClient EXCEPT !.defaultHeaders =
                      ObjectAssign(@, requestHeaders)]
           /\ wrappedCalls' = Append(wrappedCalls,
                  [ call |-> Len(calls) + 1,
                    client |-> openaiClient',
                    body |-> openaiParams,
                    headers |-> requestHeaders ])
           /\ calls' = Append(calls,
                  [ params |-> params,
                    status |-> "pending" ])
    /\ UNCHANGED pure
    /\ UNCHANGED <<phase, options, config, ctorSteps,
                   ctorError, health, fetchCalls, updates>>

\* create(params), up to its await: split the params, build the call's
\* headers and invoke the wrapped client's create.
CreateStart(params) ==
    /\ phase = "constructed"
    /\ Len(calls) < MaxCalls
    /\ LET openaiParams == Rest(params, "metadata")
           requestHeaders == buildRequestHeaders(params)
       IN  /\ wrappedCalls' = Append(wrappedCalls,
                  [ call |-> Len(calls) + 1,
                    client |-> openaiClient,
                    body |-> openaiParams,
                    headers |-> requestHeaders ])
           /\ calls' = Append(calls,
                  [ params |-> params,
                    status |-> "pending" ])
    /\ UNCHANGED pure
    /\ UNCHANGED <<phase, options, config, openaiClient, ctorSteps,
                   ctorError, health, fetchCalls, updates>>

\* The wrapped call of create number i resolves with `response`, for a
\* request the proxy answered with the HTTP headers `proxyHeaders`; create
\* resumes after its await.
CreateResolve(i, response, proxyHeaders) ==
    /\ i \in 1..Len(calls)
    /\ calls[i].status = "pending"
    /\ calls' = [calls EXCEPT ![i] =
                    [ status |-> "resolved",
                      wrappedResponse |-> response,
                      proxyHeaders |-> proxyHeaders,
                      response |-> TagResponse(response) ] @@ @]
    /\ UNCHANGED pure
    /\ UNCHANGED <<phase, options, config, openaiClient, ctorSteps,
                   ctorError, wrappedCalls, health, fetchCalls, updates>>

\* Variant: the calls in flight share their fate, as under Promise.all; the
\* rejection of one wrapped call rejects every pending create.
CreateReject_CancelsOthers(i, error) ==
    /\ i \in 1..Len(calls)
    /\ calls[i].status = "pending"
    /\ calls' = [n \in 1..Len(calls) |->
                    IF calls[n].status = "pending"
                    THEN [ status |-> "rejected",
                           wrappedError |-> error,
                           error |-> error ] @@ calls[n]
                    ELSE calls[n]]
    /\ UNCHANGED pure
    /\ UNCHANGED <<phase, options, config, openaiClient, ctorSteps,
                   ctorError, wrappedCalls, health, fetchCalls, updates>>

\* create wrapping the error of the wrapped call in one of its own.
CreateReject_Translated(i, error) ==
    /\ i \in 1..Len(calls)
    /\ calls[i].status = "pending"
    /\ calls' = [calls EXCEPT ![i] =
                    [ status |-> "rejected",
                      wrappedError |-> error,
                      error |-> "Tokenlay request failed: " \o error ] @@ @]
    /\ UNCHANGED pure
    /\ UNCHANGED <<phase, options, config, openaiClient, ctorSteps,
                   ctorError, wrappedCalls, health, fetchCalls, updates>>

\* The wrapped call of create number i rejects with `error`; the await
\* rethrows it and create has no handler.
CreateReject(i, error) ==
    /\ i \in 1..Len(calls)
    /\ calls[i].status = "pending"
    /\ calls' = [calls EXCEPT ![i] =
                    [ status |-> "rejected",
                      wrappedError |-> error,
                      error |-> error ] @@ @]
    /\ UNCHANGED pure
    /\ UNCHANGED <<phase, options, config, openaiClient, ctorSteps,
                   ctorError, wrappedCalls, health, fetchCalls, updates>>

-----------------------------------------------------------------------------
(* src/client.ts: updateMetadata, updateProviderKey                        *)

\* Variant: no filtering, every entry of the argument is merged.
FilterDefined_Identity(metadata) == metadata

\* for (const [key, value] of Object.entries(metadata))
\*   if (value !== undefined) filteredMetadata[key] = value;
FilterDefined(metadata) ==
    [k \in {x \in DOMAIN metadata : metadata[x] # undefined} |-> metadata[k]]

\* Variant: the new entries are merged into the construction-time
\* metadata, not into the stored map.
updateMetadataWithin_FromConstruction(bound, metadata) ==
    /\ phase = "constructed"
    /\ Len(updates) < bound
    /\ LET stored == IF Has(options, "metadata") THEN options.metadata
                     ELSE NoObject
           merged == ObjectAssign(stored, FilterDefined(metadata))
       IN  config' = ("metadata" :> merged) @@ config
    /\ updates' = Append(updates, [op |-> "updateMetadata",
                                   metadata |-> metadata])
    /\ UNCHANGED pure
    /\ UNCHANGED <<phase, options, openaiClient, ctorSteps, ctorError,
                   calls, wrappedCalls, health, fetchCalls>>

\* updateMetadata(metadata), while fewer than `bound` updates were made.
updateMetadataWithin(bound, metadata) ==
    /\ phase = "constructed"
    /\ Len(updates) < bound
    /\ LET stored == IF Has(config, "metadata") THEN config.metadata
                     ELSE NoObject
           merged == ObjectAssign(stored, FilterDefined(metadata))
       IN  config' = ("metadata" :> merged) @@ config
    /\ updates' = Append(updates, [op |-> "updateMetadata",
                                   metadata |-> metadata])
    /\ UNCHANGED pure
    /\ UNCHANGED <<phase, options, openaiClient, ctorSteps, ctorError,
                   calls, wrappedCalls, health, fetchCalls>>

\* Variant: the update also rewrites the headers of the calls in flight.
updateMetadata_PatchesInFlight(metadata) ==
    /\ phase = "constructed"
    /\ Len(updates) < MaxUpdates
    /\ LET stored == IF Has(config, "metadata") THEN config.metadata
                     ELSE NoObject
           merged == ObjectAssign(stored, FilterDefined(metadata))
       IN  config' = ("metadata" :> merged) @@ config
    /\ wrappedCalls' =
          [n \in 1..Len(wrappedCalls) |->
              IF calls[wrappedCalls[n].call].status = "pending"
              THEN [wrappedCalls[n] EXCEPT !.headers =
                       ObjectAssign(@, metadataToHeaders(metadata))]
              ELSE wrappedCalls[n]]
    /\ updates' = Append(updates, [op |-> "updateMetadata",
                                   metadata |-> metadata])
    /\ UNCHANGED pure
    /\ UNCHANGED <<phase, options, openaiClient, ctorSteps, ctorError,
                   calls, health, fetchCalls>>

updateMetadata(metadata) == updateMetadataWithin(MaxUpdates, metadata)

\* Variant: the key rotation rebuilds the wrapped client from the new
\* configuration.
updateProviderKey_RebuildsClient(providerApiKey) ==
    /\ phase = "constructed"
    /\ Len(updates) < MaxUpdates
    /\ config' = [config EXCEPT !.providerApiKey = providerApiKey]
    /\ openaiClient' = NewOpenAI(config')
    /\ updates' = Append(updates, [op |-> "updateProviderKey",
                                   providerApiKey |-> providerApiKey])
    /\ UNCHANGED pure
    /\ UNCHANGED <<phase, options, ctorSteps, ctorError,
                   calls, wrappedCalls, health, fetchCalls>>

\* Variant: the key rotation starts from a fresh configuration and drops
\* the stored global metadata.
updateProviderKey_DropsMetadata(providerApiKey) ==
    /\ phase = "constructed"
    /\ Len(updates) < MaxUpdates
    /\ config' = [config EXCEPT !.providerApiKey = providerApiKey,
                                !.metadata = NoObject]
    /\ updates' = Append(updates, [op |-> "updateProviderKey",
                                   providerApiKey |-> providerApiKey])
    /\ UNCHANGED pure
    /\ UNCHANGED <<phase, options, openaiClient, ctorSteps, ctorError,
                   calls, wrappedCalls, health, fetchCalls>>

updateProviderKey(providerApiKey) ==
    /\ phase = "constructed"
    /\ Len(updates) < MaxUpdates
    /\ config' = [config EXCEPT !.providerApiKey = providerApiKey]
    /\ updates' = Append(updates, [op |-> "updateProviderKey",
                                   providerApiKey |-> providerApiKey])
    /\ UNCHANGED pure
    /\ UNCHANGED <<phase, options, openaiClient, ctorSteps, ctorError,
                   calls, wrappedCalls, health, fetchCalls>>

-----------------------------------------------------------------------------
(* src/client.ts: healthCheck                                              *)

\* healthCheck(), up to its await: build the URL and call fetch.
HealthStart ==
    /\ phase = "constructed"
    /\ Len(health) < MaxHealth
    /\ fetchCalls' = Append(fetchCalls,
           [ url |-> buildTokenlayUrl(config.tokenlayBaseUrl, "health"),
             headers |-> [Authorization |->
                              "Bearer " \o config.tokenlayKey] ])
    /\ health' = Append(health, [status |-> "pending"])
    /\ UNCHANGED pure
    /\ UNCHANGED <<phase, options, config, openaiClient, ctorSteps,
                   ctorError, calls, wrappedCalls, updates>>

\* fetch resolves with a Response; healthCheck returns from the try block.
HealthResolve(i, response) ==
    /\ i \in 1..Len(health)
    /\ health[i].status = "pending"
    /\ health' = [health EXCEPT ![i] =
           [ status |-> "resolved",
             fetched |-> response,
             result |-> IF response.ok
                        THEN [status |-> "ok"]
                        ELSE [status |-> "error",
                              message |-> "HTTP " \o ToString(response.status)
                                          \o ": " \o response.statusText] ]]
    /\ UNCHANGED pure
    /\ UNCHANGED <<phase, options, config, openaiClient, ctorSteps,
                   ctorError, calls, wrappedCalls, fetchCalls, updates>>

\* healthCheck without its catch block: the rejection of fetch escapes.
HealthCatch_Rethrown(i, thrown) ==
    /\ i \in 1..Len(health)
    /\ health[i].status = "pending"
    /\ health' = [health EXCEPT ![i] =
           [ status |-> "rejected",
             thrown |-> thrown ]]
    /\ UNCHANGED pure
    /\ UNCHANGED <<phase, options, config, openaiClient, ctorSteps,
                   ctorError, calls, wrappedCalls, fetchCalls, updates>>

\* fetch rejects with the value `thrown`; healthCheck returns from the
\* catch block.
HealthCatch(i, thrown) ==
    /\ i \in 1..Len(health)
    /\ health[i].status = "pending"
    /\ health' = [health EXCEPT ![i] =
           [ status |-> "resolved",
             thrown |-> thrown,
             result |-> [status |-> "error",
                         message |-> IF thrown.instanceofError
                                     THEN thrown.message
                                     ELSE "Unknown error"] ]]
    /\ UNCHANGED pure
    /\ UNCHANGED <<phase, options, config, openaiClient, ctorSteps,
                   ctorError, calls, wrappedCalls, fetchCalls, updates>>

-----------------------------------------------------------------------------
(* The inputs of the model.                                                *)

\* The objects {} and {name: v} for v in values.
OptionalProperty(name, values) == {NoObject} \cup {name :> v : v \in values}

GlobalMetadatas ==
    { NoObject,
      [userId |-> "user_123"],
      [userId |-> "user_123", tier |-> "free"],
      "provider-key" :> "sk-meta-111" }

ExtraHeaderMaps ==
    { "x-custom" :> "1",
      "x-tokenlay-userId" :> "user_999",
      "x-tokenlay-provider-key" :> "sk-other-000" }

\* Every shape of constructor argument: each property missing, falsy or set.
AllOptions ==
    { a @@ b @@ c @@ d @@ e @@ f @@ g @@ h :
        a \in OptionalProperty("tokenlayKey", {"", "tk_test_123"}),
        b \in OptionalProperty("providerApiKey", {"", "sk-test-456"}),
        c \in OptionalProperty("providerApiBase",
                               {"", "https://api.anthropic.com/v1"}),
        d \in OptionalProperty("tokenlayBaseUrl",
                               {"", "https://custom.tokenlay.com",
                                "http://localhost:3000/"}),
        e \in OptionalProperty("timeout", {0, 30000}),
        f \in OptionalProperty("maxRetries", {0, 5}),
        g \in OptionalProperty("metadata", GlobalMetadatas),
        h \in OptionalProperty("extraHeaders", ExtraHeaderMaps) }

\* The constructor arguments of the clients that make calls.
ClientOptions ==
    { a @@ b @@ g @@ h :
        a \in {"tokenlayKey" :> "tk_test_123"},
        b \in {"providerApiKey" :> "sk-test-456"},
        g \in OptionalProperty("metadata", {[userId |-> "user_123",
                                             tier |-> "free"]}),
        h \in OptionalProperty("extraHeaders",
                               {"x-tokenlay-tier" :> "internal"}) }

\* The arguments of chat.completions.create: a call without metadata, and
\* a call whose metadata has a key of the global metadata, a key with an
\* undefined value and a key of its own.
Params ==
    { [model |-> "gpt-3.5-turbo", messages |-> "Hello!"],
      [model |-> "invalid-model-name", messages |-> "test", stream |-> TRUE,
       metadata |-> [userId |-> "user_456", tier |-> undefined,
                     feature |-> "chat"]] }

\* What the wrapped client's create resolves with.
Responses ==
    { [id |-> "chatcmpl-test", object |-> "chat.completion"] @@ r :
        r \in OptionalProperty("_request_id", {"", "req_test_123"}) }

\* The x-tokenlay-* headers of the proxy's HTTP response.
ProxyHeaderMaps ==
    { NoObject,
      ( "x-tokenlay-rule-id" :> "test-rule"
        @@ "x-tokenlay-rule-action" :> "allow"
        @@ "x-tokenlay-cost" :> "0.00018"
        @@ "x-tokenlay-tokens-used" :> "18"
        @@ "x-tokenlay-limit-exceeded" :> "true" ) }

\* What the wrapped client's create rejects with.
WrappedErrors ==
    { "401 Incorrect API key provided", "404 The model does not exist" }

UpdateMetadatas ==
    { [userId |-> "user_456", tier |-> "enterprise"],
      [tier |-> undefined, feature |-> "search"] }

ProviderKeys == {"sk-new-key-789", ""}

\* What fetch resolves with.
FetchResponses ==
    { [ok |-> TRUE, status |-> 200, statusText |-> "OK"],
      [ok |-> TRUE, status |-> 204, statusText |-> "No Content"],
      [ok |-> FALSE, status |-> 401, statusText |-> "Unauthorized"] }

\* What fetch rejects with: an Error, or a value that is not an Error.
FetchThrown ==
    { [instanceofError |-> TRUE, message |-> "Network error"],
      [instanceofError |-> FALSE, value |-> "ECONNREFUSED"] }

-----------------------------------------------------------------------------
(* Specifications.                                                         *)

\* No helper call is being followed.
NoCall == [fn |-> "none"]

InitWith(optionsSet) ==
    /\ phase = "uninitialized"
    /\ options \in optionsSet
    /\ config = NoObject
    /\ openaiClient = NoObject
    /\ ctorSteps = <<>>
    /\ ctorError = ""
    /\ calls = <<>>
    /\ wrappedCalls = <<>>
    /\ health = <<>>
    /\ fetchCalls = <<>>
    /\ updates = <<>>
    /\ pure = NoCall

Init == InitWith(ClientOptions)

Next ==
    \/ Construct
    \/ \E params \in Params : CreateStart(params)
    \/ \E i \in 1..MaxCalls, response \in Responses,
          proxyHeaders \in ProxyHeaderMaps :
            CreateResolve(i, response, proxyHeaders)
    \/ \E i \in 1..MaxCalls, error \in WrappedErrors : CreateReject(i, error)
    \/ \E metadata \in UpdateMetadatas : updateMetadata(metadata)
    \/ \E providerApiKey \in ProviderKeys : updateProviderKey(providerApiKey)

\* One client, its constructor argument taken from ClientOptions, making
\* chat completion calls while its configuration is updated.
Spec == Init /\ [][Next]_vars

InitConfig == InitWith(AllOptions)

NextConfig ==
    \/ Construct
    \/ \E metadata \in UpdateMetadatas : updateMetadata(metadata)
    \/ \E providerApiKey \in ProviderKeys : updateProviderKey(providerApiKey)
    \/ HealthStart
    \/ \E i \in 1..MaxHealth, response \in FetchResponses :
            HealthResolve(i, response)
    \/ \E i \in 1..MaxHealth, thrown \in FetchThrown : HealthCatch(i, thrown)

\* One client for every shape of constructor argument: construction,
\* configuration updates and health checks.
SpecConfig == InitConfig /\ [][NextConfig]_vars

\* A create is awaiting its wrapped call.
CallInFlight == \E i \in 1..Len(calls) : calls[i].status = "pending"

\* The caller updates the metadata while a create is awaiting.
UpdateMetadataInFlight(metadata) ==
    /\ CallInFlight
    /\ updateMetadata(metadata)

\* The caller rotates the provider key while a create is awaiting.
UpdateProviderKeyInFlight(providerApiKey) ==
    /\ CallInFlight
    /\ updateProviderKey(providerApiKey)

\* The calls and outcomes of the clients whose updates are followed: one
\* outcome of each kind.
SequenceParams == {p \in Params : "metadata" \in DOMAIN p}

SequenceResponses ==
    {r \in Responses : "_request_id" \in DOMAIN r /\ r._request_id # ""}

SequenceErrors == {"401 Incorrect API key provided"}

SequenceFetchResponses == {r \in FetchResponses : r.status = 200}

SequenceFetchThrown == {t \in FetchThrown : t.instanceofError}

NextInFlight ==
    \/ Construct
    \/ \E params \in Params : CreateStart(params)
    \/ \E i \in 1..MaxCalls, response \in Responses :
            CreateResolve(i, response, NoObject)
    \/ \E i \in 1..MaxCalls, error \in SequenceErrors : CreateReject(i, error)
    \/ \E metadata \in UpdateMetadatas : UpdateMetadataInFlight(metadata)
    \/ \E providerApiKey \in ProviderKeys :
            UpdateProviderKeyInFlight(providerApiKey)

\* One client whose configuration is updated only while one of its chat
\* completion calls is in flight.
SpecInFlight == Init /\ [][NextInFlight]_vars

NextSequence ==
    \/ Construct
    \/ \E params \in SequenceParams : CreateStart(params)
    \/ \E i \in 1..MaxCalls, response \in SequenceResponses :
            CreateResolve(i, response, NoObject)
    \/ \E i \in 1..MaxCalls, error \in SequenceErrors : CreateReject(i, error)
    \/ \E metadata \in UpdateMetadatas :
            updateMetadataWithin(MaxSequence, metadata)
    \/ HealthStart
    \/ \E i \in 1..MaxHealth, response \in SequenceFetchResponses :
            HealthResolve(i, response)
    \/ \E i \in 1..MaxHealth, thrown \in SequenceFetchThrown :
            HealthCatch(i, thrown)

\* One client on which up to MaxSequence metadata updates are interleaved
\* with chat completion calls and health checks in flight.
SpecSequence == Init /\ [][NextSequence]_vars

-----------------------------------------------------------------------------
(* Calls of the helpers of src/utils.ts.  `pure` holds the arguments of    *)
(* one call and, once the helper has run, what it returned.                *)

\* The helper called on pure's arguments has not run yet.
Called(fn) == pure.fn = fn /\ "result" \notin DOMAIN pure

clientVars == <<phase, options, config, openaiClient, ctorSteps, ctorError,
                calls, wrappedCalls, health, fetchCalls, updates>>

CallMetadataToHeaders ==
    /\ Called("metadataToHeaders")
    /\ pure' = ("result" :> metadataToHeaders(pure.metadata)) @@ pure
    /\ UNCHANGED clientVars

\* The headers metadataToHeaders returned are handed to
\* parseTokenlayHeaders.
DecodeEncoded ==
    /\ pure.fn = "metadataToHeaders"
    /\ "result" \in DOMAIN pure
    /\ "decoded" \notin DOMAIN pure
    /\ pure' = ("decoded" :> parseTokenlayHeaders(pure.result)) @@ pure
    /\ UNCHANGED clientVars

CallParseTokenlayHeaders ==
    /\ Called("parseTokenlayHeaders")
    /\ pure' = ("result" :> parseTokenlayHeaders(pure.headers)) @@ pure
    /\ UNCHANGED clientVars

CallBuildTokenlayUrl ==
    /\ Called("buildTokenlayUrl")
    /\ pure' = ("result" :> buildTokenlayUrl(pure.baseUrl, pure.endpoint))
                  @@ pure
    /\ UNCHANGED clientVars

\* mergeHeaders returns; `result` is the returned map and `headerGroups`
\* the argument objects as the call left them, `passed` as they were.
CallMergeHeaders ==
    /\ Called("mergeHeaders")
    /\ LET res == mergeHeaders(pure.headerGroups)
       IN  pure' = [ fn |-> "mergeHeaders",
                     passed |-> pure.headerGroups,
                     headerGroups |-> res.headerGroups,
                     result |-> res.merged ]
    /\ UNCHANGED clientVars

\* validateConfig returns or throws; `result` is the message of the error
\* it threw, "" when it returned.
CallValidateConfig ==
    /\ Called("validateConfig")
    /\ pure' = ("result" :> validateConfig(pure.config)) @@ pure
    /\ UNCHANGED clientVars

\* The arguments of validateConfig: each key missing, undefined, empty or
\* set.
ValidatedConfigs ==
    { a @@ b :
        a \in OptionalProperty("tokenlayKey", {undefined, "", "tk_test_123"}),
        b \in OptionalProperty("providerApiKey",
                               {undefined, "", "sk-test-456"}) }

\* Metadata maps: keys of either case, keys that name a response field,
\* each missing, undefined, empty, a word or a number.
MetadataMaps ==
    { a @@ b @@ c @@ d :
        a \in OptionalProperty("userId", {undefined, "", "user_123", "7"}),
        b \in OptionalProperty("Tier", {undefined, "", "user_123", "7"}),
        c \in OptionalProperty("cost", {undefined, "", "user_123", "7"}),
        d \in OptionalProperty("warnings", {undefined, "", "user_123", "7"}) }

\* Texts of the warnings header that are not JSON, and texts that are.
InvalidJSONTexts == {"not-json", "[\"w1\","}

ValidJSONTexts == {"[\"w1\",\"w2\"]"}

\* Response header maps: each header missing, well formed or malformed.
ResponseHeaderMaps ==
    { a @@ b @@ c @@ d @@ e @@ f @@ g @@ h @@ i :
        a \in OptionalProperty("x-tokenlay-rule-id", {"test-rule"}),
        b \in OptionalProperty("x-tokenlay-rule-action",
                               {"", "block", "deny"}),
        c \in OptionalProperty("x-tokenlay-limit-exceeded",
                               {"true", "false"}),
        d \in OptionalProperty("x-tokenlay-cost", {"0.00018", "abc"}),
        e \in OptionalProperty("x-tokenlay-tokens-used",
                               {"18", "12abc", "12.5", "-5", "abc"}),
        f \in OptionalProperty("x-tokenlay-input-tokens", {"10"}),
        g \in OptionalProperty("x-tokenlay-output-tokens", {"8"}),
        h \in OptionalProperty("x-tokenlay-duration", {"250", " -1"}),
        i \in OptionalProperty("x-tokenlay-warnings",
                  {""} \cup InvalidJSONTexts \cup ValidJSONTexts) }

\* n slashes.
RECURSIVE Slashes(_)
Slashes(n) == IF n = 0 THEN "" ELSE "/" \o Slashes(n - 1)

\* Bases that do not end with a slash, endpoints that do not start with one.
JointFreeBases == {"", "https://api.tokenlay.com", "http://localhost:3000"}

JointFreeEndpoints == {"", "health", "chat/completions"}

\* The groups handed to mergeHeaders.
HeaderGroups ==
    { UndefinedGroup,
      NoObject,
      "content-type" :> "application/json",
      "authorization" :> "Bearer token",
      "content-type" :> "text/plain" @@ "x-custom" :> "value" }

PureCalls ==
    {[fn |-> "metadataToHeaders", metadata |-> m] : m \in MetadataMaps}
    \cup {[fn |-> "parseTokenlayHeaders", headers |-> h] :
            h \in ResponseHeaderMaps}
    \cup {[fn |-> "buildTokenlayUrl",
           baseUrl |-> b \o Slashes(tb), endpoint |-> Slashes(le) \o e] :
            b \in JointFreeBases, tb \in 0..MaxSlashes,
            e \in JointFreeEndpoints, le \in 0..MaxSlashes}
    \cup {[fn |-> "mergeHeaders", headerGroups |-> gs] :
            gs \in UNION {[1..n -> HeaderGroups] : n \in 0..MaxGroups}}
    \cup {[fn |-> "validateConfig", config |-> c] : c \in ValidatedConfigs}

InitPure ==
    /\ phase = "uninitialized"
    /\ options = [tokenlayKey |-> "tk_test_123",
                  providerApiKey |-> "sk-test-456"]
    /\ config = NoObject
    /\ openaiClient = NoObject
    /\ ctorSteps = <<>>
    /\ ctorError = ""
    /\ calls = <<>>
    /\ wrappedCalls = <<>>
    /\ health = <<>>
    /\ fetchCalls = <<>>
    /\ updates = <<>>
    /\ pure \in PureCalls

NextPure ==
    \/ CallMetadataToHeaders
    \/ DecodeEncoded
    \/ CallParseTokenlayHeaders
    \/ CallBuildTokenlayUrl
    \/ CallMergeHeaders
    \/ CallValidateConfig

\* One call of a helper of utils.ts on arguments of its input space.
SpecPure == InitPure /\ [][NextPure]_vars

-----------------------------------------------------------------------------
(* Vocabulary of the properties.                                           *)

ControlHeaders == {"x-tokenlay-provider-key", "x-tokenlay-provider-base"}

\* The property is missing or is the empty string.
MissingOrEmpty(obj, key) == key \notin DOMAIN obj \/ obj[key] = ""

\* An optional map of the constructor argument, {} when not given.
OptionMap(key) == IF key \in DOMAIN options THEN options[key] ELSE NoObject

\* The keys of a metadata map that carry a value.
DefinedKeys(metadata) == {k \in DOMAIN metadata : metadata[k] # undefined}

\* The per-call metadata of create number i, {} when it has none.
CallMetadata(i) ==
    IF "metadata" \in DOMAIN calls[i].params
    THEN calls[i].params.metadata
    ELSE NoObject

\* The invocations of the wrapped client's create made for create number i.
WrappedCallsOf(i) == {j \in 1..Len(wrappedCalls) : wrappedCalls[j].call = i}

\* The headers of an invocation as sent: the default headers of the wrapped
\* client it was made on, overlaid by the call-scoped headers.
SentHeaders(w) == w.headers @@ w.client.defaultHeaders

-----------------------------------------------------------------------------
(* Properties of chat.completions.create.                                  *)

\* C1: every create call invokes the wrapped client's create exactly once,
\* with the params minus the metadata key, every other field unchanged, and
\* with call-scoped headers holding exactly one x-tokenlay-<key> header per
\* defined per-call metadata entry: metadataToHeaders(params.metadata), the
\* empty map without metadata, and no control, global or extra header.
C1_ForwardedOnceWithCallHeaders ==
    \A i \in 1..Len(calls) :
        /\ Cardinality(WrappedCallsOf(i)) = 1
        /\ \A j \in WrappedCallsOf(i) :
            LET w == wrappedCalls[j]
                p == calls[i].params
            IN  /\ DOMAIN w.body = DOMAIN p \ {"metadata"}
                /\ \A k \in DOMAIN w.body : w.body[k] = p[k]
                /\ w.headers = metadataToHeaders(CallMetadata(i))
                /\ DOMAIN w.headers =
                       {HeaderPrefix \o k : k \in DefinedKeys(CallMetadata(i))}
                /\ ("metadata" \notin DOMAIN p) => w.headers = NoObject

\* C1 witness: a call with per-call metadata and a call without have both
\* reached the wrapped client.
C1_Witness ==
    /\ \E i \in 1..Len(calls) :
          /\ "metadata" \in DOMAIN calls[i].params
          /\ \E j \in WrappedCallsOf(i) : wrappedCalls[j].headers # NoObject
    /\ \E i \in 1..Len(calls) :
          /\ "metadata" \notin DOMAIN calls[i].params
          /\ WrappedCallsOf(i) # {}

\* C5 as stated: on the request as sent, a global metadata key that also
\* has a per-call value carries the per-call value, and every other global
\* metadata key carries its global value.
C5_PerCallOverridesGlobalKeepsRest ==
    \A j \in 1..Len(wrappedCalls) :
        LET w == wrappedCalls[j]
            sent == SentHeaders(w)
            global == OptionMap("metadata")
            percall == CallMetadata(w.call)
        IN  \A k \in DOMAIN global :
                /\ (HeaderPrefix \o k) \in DOMAIN sent
                /\ sent[HeaderPrefix \o k] =
                       IF k \in DefinedKeys(percall)
                       THEN percall[k]
                       ELSE global[k]

\* C5 amended: as C5, except that a global metadata key without a per-call
\* value whose header name is also an extraHeaders entry carries the
\* extraHeaders value.
C5_PerCallOverridesGlobalUnlessExtra ==
    \A j \in 1..Len(wrappedCalls) :
        LET w == wrappedCalls[j]
            sent == SentHeaders(w)
            global == OptionMap("metadata")
            extra == OptionMap("extraHeaders")
            percall == CallMetadata(w.call)
        IN  \A k \in DOMAIN global :
                /\ (HeaderPrefix \o k) \in DOMAIN sent
                /\ sent[HeaderPrefix \o k] =
                       IF k \in DefinedKeys(percall)
                       THEN percall[k]
                       ELSE IF (HeaderPrefix \o k) \in DOMAIN extra
                       THEN extra[HeaderPrefix \o k]
                       ELSE global[k]

\* C5 witness: a request was sent by a client with global metadata, with a
\* per-call value for one global key and none for another.
C5_Witness ==
    \E j \in 1..Len(wrappedCalls) :
        LET global == OptionMap("metadata")
            percall == CallMetadata(wrappedCalls[j].call)
        IN  /\ \E k \in DOMAIN global : k \in DefinedKeys(percall)
            /\ \E k \in DOMAIN global : k \notin DefinedKeys(percall)

\* C6: a resolved create returns a response with a _tokenlay record exactly
\* when the wrapped client's response had a non-empty _request_id;
\* otherwise the response is returned as it came and getTokenlayMetadata
\* returns null.
C6_TaggedIffRequestId ==
    \A i \in 1..Len(calls) :
        calls[i].status = "resolved" =>
            LET hasId == ~MissingOrEmpty(calls[i].wrappedResponse,
                                         "_request_id")
            IN  /\ ("_tokenlay" \in DOMAIN calls[i].response) <=> hasId
                /\ ~hasId =>
                      /\ calls[i].response = calls[i].wrappedResponse
                      /\ getTokenlayMetadata(calls[i].response) = Null
                /\ hasId => getTokenlayMetadata(calls[i].response) # Null

\* C6 witness: one create resolved on a response with a request id, one on
\* a response with an empty request id.
C6_Witness ==
    /\ \E i \in 1..Len(calls) :
          /\ calls[i].status = "resolved"
          /\ "_tokenlay" \in DOMAIN calls[i].response
    /\ \E i \in 1..Len(calls) :
          /\ calls[i].status = "resolved"
          /\ "_request_id" \in DOMAIN calls[i].wrappedResponse
          /\ "_tokenlay" \notin DOMAIN calls[i].response

\* C7 as stated: the record attached to a resolved response holds the rule
\* id, rule action, cost and tokens used that the proxy reported in the
\* response headers of that request, decoded as parseTokenlayHeaders does.
C7_AttachedMetadataIsProxyReported ==
    \A i \in 1..Len(calls) :
        (calls[i].status = "resolved"
            /\ "_tokenlay" \in DOMAIN calls[i].response) =>
            LET attached == calls[i].response._tokenlay
                reported == parseTokenlayHeaders(calls[i].proxyHeaders)
            IN  /\ attached.ruleId = reported.ruleId
                /\ attached.ruleAction = reported.ruleAction
                /\ attached.cost = reported.cost
                /\ attached.tokensUsed = reported.tokensUsed

\* C8: when the wrapped call of a create rejects, the create rejects with
\* that same error, no response or metadata is produced for it, the wrapped
\* client is not invoked again, and the stored configuration and the
\* wrapped client stay as they were.
C8_RejectionPropagatesUnchanged ==
    [][ \A i \in 1..Len(calls) :
            (calls[i].status = "pending" /\ calls'[i].status = "rejected") =>
                /\ calls'[i].error = calls'[i].wrappedError
                /\ calls'[i].error \in WrappedErrors
                /\ "response" \notin DOMAIN calls'[i]
                /\ wrappedCalls' = wrappedCalls
                /\ Cardinality(WrappedCallsOf(i)) = 1
                /\ config' = config
                /\ openaiClient' = openaiClient ]_vars

\* C8 witness: a create has rejected.
C8_Witness ==
    \E i \in 1..Len(calls) :
        /\ calls[i].status = "rejected"
        /\ calls[i].error = calls[i].wrappedError

-----------------------------------------------------------------------------
(* Properties of construction.                                             *)

\* C2: the constructor validates first and once; when tokenlayKey or
\* providerApiKey is missing or empty it throws, and neither a
\* configuration nor a wrapped client exists.
C2_InvalidConfigFailsBeforeClient ==
    phase # "uninitialized" =>
        /\ Len(ctorSteps) >= 1
        /\ ctorSteps[1] = "validateConfig"
        /\ Cardinality({n \in 1..Len(ctorSteps) :
                            ctorSteps[n] = "validateConfig"}) = 1
        /\ (MissingOrEmpty(options, "tokenlayKey")
                \/ MissingOrEmpty(options, "providerApiKey")) =>
              /\ phase = "failed"
              /\ ctorError # ""
              /\ config = NoObject
              /\ openaiClient = NoObject
              /\ \A n \in 1..Len(ctorSteps) : ctorSteps[n] # "new OpenAI"
        /\ phase = "failed" =>
              (MissingOrEmpty(options, "tokenlayKey")
                  \/ MissingOrEmpty(options, "providerApiKey"))

\* C2 witness: a construction failed on an empty providerApiKey.
C2_Witness ==
    /\ phase = "failed"
    /\ ~MissingOrEmpty(options, "tokenlayKey")
    /\ "providerApiKey" \in DOMAIN options
    /\ options.providerApiKey = ""

\* C3 as stated: the default headers of the wrapped client hold both
\* control header names, x-tokenlay-<key> with the entry's value for every
\* global metadata entry, every extraHeaders entry, and nothing else.
C3_DefaultHeadersContent ==
    phase = "constructed" =>
        LET dh == openaiClient.defaultHeaders
            metadata == OptionMap("metadata")
            extra == OptionMap("extraHeaders")
        IN  /\ ControlHeaders \subseteq DOMAIN dh
            /\ \A k \in DOMAIN metadata :
                  /\ (HeaderPrefix \o k) \in DOMAIN dh
                  /\ dh[HeaderPrefix \o k] = metadata[k]
            /\ \A h \in DOMAIN extra : h \in DOMAIN dh /\ dh[h] = extra[h]
            /\ DOMAIN dh = ControlHeaders
                              \cup {HeaderPrefix \o k : k \in DOMAIN metadata}
                              \cup DOMAIN extra

\* C3 amended: as C3, except that a global metadata entry whose header name
\* is also an extraHeaders entry carries the extraHeaders value.
C3_DefaultHeadersContentUnlessExtra ==
    phase = "constructed" =>
        LET dh == openaiClient.defaultHeaders
            metadata == OptionMap("metadata")
            extra == OptionMap("extraHeaders")
        IN  /\ ControlHeaders \subseteq DOMAIN dh
            /\ \A k \in DOMAIN metadata :
                  /\ (HeaderPrefix \o k) \in DOMAIN dh
                  /\ (HeaderPrefix \o k) \notin DOMAIN extra =>
                        dh[HeaderPrefix \o k] = metadata[k]
            /\ \A h \in DOMAIN extra : h \in DOMAIN dh /\ dh[h] = extra[h]
            /\ DOMAIN dh = ControlHeaders
                              \cup {HeaderPrefix \o k : k \in DOMAIN metadata}
                              \cup DOMAIN extra

\* C3 witness: a client was constructed with global metadata and extra
\* headers, one extra header naming the header of a metadata entry.
C3_Witness ==
    /\ phase = "constructed"
    /\ \E k \in DOMAIN OptionMap("metadata") :
          (HeaderPrefix \o k) \in DOMAIN OptionMap("extraHeaders")
    /\ \E k \in DOMAIN OptionMap("metadata") :
          (HeaderPrefix \o k) \notin DOMAIN OptionMap("extraHeaders")

\* C4: the wrapped client targets the proxy, buildTokenlayUrl of the
\* effective tokenlayBaseUrl and "", and authenticates with tokenlayKey;
\* neither the provider base nor the provider key takes their place, also
\* after the provider key is updated.
C4_WrappedClientTargetsProxy ==
    phase = "constructed" =>
        LET base == IF MissingOrEmpty(options, "tokenlayBaseUrl")
                    THEN DEFAULT_TOKENLAY_BASE_URL
                    ELSE options.tokenlayBaseUrl
        IN  /\ openaiClient.baseURL = buildTokenlayUrl(base, "")
            /\ openaiClient.baseURL # config.providerApiBase
            /\ openaiClient.baseURL
                   # buildTokenlayUrl(config.providerApiBase, "")
            /\ openaiClient.apiKey = options.tokenlayKey
            /\ options.tokenlayKey # config.providerApiKey =>
                  openaiClient.apiKey # config.providerApiKey

\* C4 witness: a client was constructed with its own proxy and provider
\* base URLs, and its provider key was then updated.
C4_Witness ==
    /\ phase = "constructed"
    /\ ~MissingOrEmpty(options, "tokenlayBaseUrl")
    /\ ~MissingOrEmpty(options, "providerApiBase")
    /\ config.providerApiKey # options.providerApiKey

-----------------------------------------------------------------------------
(* Properties of healthCheck.                                              *)

\* C9 as stated: healthCheck never rejects; it resolves to {status: ok} on
\* a 2xx response, to {status: error, message: HTTP <status>: <statusText>}
\* on any other response, and to {status: error, message: m} with m the
\* message of what fetch threw.
C9_HealthCheckResult ==
    \A i \in 1..Len(health) :
        /\ health[i].status \in {"pending", "resolved"}
        /\ health[i].status = "resolved" =>
            IF "fetched" \in DOMAIN health[i]
            THEN LET r == health[i].fetched
                 IN  IF r.status \in 200..299
                     THEN health[i].result = [status |-> "ok"]
                     ELSE health[i].result =
                            [status |-> "error",
                             message |-> "HTTP " \o ToString(r.status)
                                         \o ": " \o r.statusText]
            ELSE /\ "message" \in DOMAIN health[i].thrown
                 /\ health[i].result =
                        [status |-> "error",
                         message |-> health[i].thrown.message]

\* C9 amended: as C9, with the message "Unknown error" when what fetch
\* threw is not an Error.
C9_HealthCheckResultUnknownError ==
    \A i \in 1..Len(health) :
        /\ health[i].status \in {"pending", "resolved"}
        /\ health[i].status = "resolved" =>
            IF "fetched" \in DOMAIN health[i]
            THEN LET r == health[i].fetched
                 IN  IF r.status \in 200..299
                     THEN health[i].result = [status |-> "ok"]
                     ELSE health[i].result =
                            [status |-> "error",
                             message |-> "HTTP " \o ToString(r.status)
                                         \o ": " \o r.statusText]
            ELSE health[i].result =
                    [status |-> "error",
                     message |-> IF "message" \in DOMAIN health[i].thrown
                                 THEN health[i].thrown.message
                                 ELSE "Unknown error"]

\* C9 witness: a health check has resolved after fetch threw a value that
\* is not an Error.
C9_Witness ==
    \E i \in 1..Len(health) :
        /\ health[i].status = "resolved"
        /\ "thrown" \in DOMAIN health[i]
        /\ ~health[i].thrown.instanceofError

\* C10 as stated: healthCheck fetches <proxy base URL>/health, the /health
\* path directly under the configured proxy base URL, with the header
\* Authorization: Bearer <tokenlayKey>.
C10_HealthUrlDirectlyUnderBase ==
    \A j \in 1..Len(fetchCalls) :
        /\ fetchCalls[j].url =
               StripTrailingSlash(config.tokenlayBaseUrl) \o "/health"
        /\ fetchCalls[j].headers =
               [Authorization |-> "Bearer " \o config.tokenlayKey]

-----------------------------------------------------------------------------
(* Properties of updateMetadata and updateProviderKey.                     *)

\* The stored global metadata, {} when there is none.
StoredMetadata(cfg) ==
    IF "metadata" \in DOMAIN cfg THEN cfg.metadata ELSE NoObject

\* C11 as stated: a chat completion call started after updateMetadata or
\* updateProviderKey returned is sent with the stored provider key in
\* x-tokenlay-provider-key and with the stored global metadata: every
\* stored key that the call's own metadata or an extra header does not
\* override is sent with its stored value.
C11_UpdatesCarriedByLaterCalls ==
    [][ Len(wrappedCalls') = Len(wrappedCalls) + 1 =>
            LET w == wrappedCalls'[Len(wrappedCalls')]
                sent == SentHeaders(w)
                stored == StoredMetadata(config)
                extra == OptionMap("extraHeaders")
                p == calls'[w.call].params
                percall == IF "metadata" \in DOMAIN p THEN p.metadata
                           ELSE NoObject
            IN  /\ sent["x-tokenlay-provider-key"] = config.providerApiKey
                /\ \A k \in DOMAIN stored :
                      (k \notin DefinedKeys(percall)
                          /\ (HeaderPrefix \o k) \notin DOMAIN extra) =>
                        /\ (HeaderPrefix \o k) \in DOMAIN sent
                        /\ sent[HeaderPrefix \o k] = stored[k] ]_vars


\* The step is a call of updateMetadata.
IsUpdateMetadataStep ==
    /\ Len(updates') = Len(updates) + 1
    /\ updates'[Len(updates')].op = "updateMetadata"

\* C12: updateMetadata(m) sets the stored global metadata to the shallow
\* merge of the previously stored map (empty if none) with the entries of
\* m whose value is defined, m winning on collisions; entries of m with
\* undefined value neither add nor remove nor overwrite a stored key.
C12_UpdateMetadataMergesDefined ==
    [][ IsUpdateMetadataStep =>
            LET m == updates'[Len(updates')].metadata
                old == StoredMetadata(config)
                defined == {k \in DOMAIN m : m[k] # undefined}
            IN  /\ "metadata" \in DOMAIN config'
                /\ DOMAIN config'.metadata = DOMAIN old \cup defined
                /\ \A k \in DOMAIN config'.metadata :
                      config'.metadata[k] =
                          IF k \in defined THEN m[k] ELSE old[k] ]_vars

\* An update with an undefined entry for a stored key and a defined entry
\* for a new key has been merged into a stored map.
C12_Witness ==
    /\ OptionMap("metadata") # NoObject
    /\ \E i \in 1..Len(updates) :
          /\ updates[i].op = "updateMetadata"
          /\ \E k \in DOMAIN updates[i].metadata :
                /\ updates[i].metadata[k] = undefined
                /\ k \in DOMAIN OptionMap("metadata")
                /\ config.metadata[k] = OptionMap("metadata")[k]
          /\ \E k \in DOMAIN updates[i].metadata :
                /\ updates[i].metadata[k] # undefined
                /\ k \notin DOMAIN OptionMap("metadata")
                /\ config.metadata[k] = updates[i].metadata[k]

-----------------------------------------------------------------------------
(* Properties of concurrent chat completion calls.                         *)

\* What a call forwards and how it settles is a function of its own params
\* and of the result of its own wrapped call.
CallsDependOnOwnInputs ==
    /\ \A v, w \in 1..Len(wrappedCalls) :
          calls[wrappedCalls[v].call].params
              = calls[wrappedCalls[w].call].params =>
            /\ wrappedCalls[v].body = wrappedCalls[w].body
            /\ wrappedCalls[v].headers = wrappedCalls[w].headers
    /\ \A i, j \in 1..Len(calls) :
          /\ (/\ calls[i].status = "resolved"
              /\ calls[j].status = "resolved"
              /\ calls[i].wrappedResponse = calls[j].wrappedResponse) =>
                calls[i].response = calls[j].response
          /\ (/\ calls[i].status = "rejected"
              /\ calls[j].status = "rejected"
              /\ calls[i].wrappedError = calls[j].wrappedError) =>
                calls[i].error = calls[j].error

\* C13: chat completion calls issued concurrently on one client are
\* independent: what each call forwards and how it settles depends only
\* on its own params and its own wrapped-call result, and in every
\* interleaving a step of one call (its failure included) leaves the
\* forwarded payload and headers of every call, and the state, result and
\* attached metadata of every other call, as they were.
C13_ConcurrentCallsIndependent ==
    [][ /\ \A n \in 1..Len(wrappedCalls) : wrappedCalls'[n] = wrappedCalls[n]
        /\ \A i \in 1..Len(calls) :
              /\ calls'[i].params = calls[i].params
              /\ calls[i].status # "pending" => calls'[i] = calls[i]
        /\ \A i, j \in 1..Len(calls) :
              i # j => (calls'[i] = calls[i] \/ calls'[j] = calls[j])
        /\ CallsDependOnOwnInputs' ]_vars

\* Two calls were in flight; the first failed and the second resolved with
\* a tagged response.
C13_Witness ==
    /\ Len(calls) = 2
    /\ Len(wrappedCalls) = 2
    /\ calls[1].status = "rejected"
    /\ calls[2].status = "resolved"
    /\ "_tokenlay" \in DOMAIN calls[2].response

-----------------------------------------------------------------------------
(* Properties of the effective configuration.                              *)

\* The value the configuration is to hold for an optional field: the
\* caller's when the caller supplied one, the default otherwise.
SuppliedOr(key, default) ==
    IF key \in DOMAIN options THEN options[key] ELSE default

\* C14 as stated: for each optional configuration field (providerApiBase,
\* tokenlayBaseUrl, timeout, maxRetries) the effective configuration holds
\* the caller's value whenever the caller supplied one, whatever number or
\* string it is, and the default only when the field is absent.
C14_SuppliedValueKept ==
    phase = "constructed" =>
        /\ config.providerApiBase
              = SuppliedOr("providerApiBase", DEFAULT_PROVIDER_API_BASE)
        /\ config.tokenlayBaseUrl
              = SuppliedOr("tokenlayBaseUrl", DEFAULT_TOKENLAY_BASE_URL)
        /\ config.timeout = SuppliedOr("timeout", 60000)
        /\ config.maxRetries = SuppliedOr("maxRetries", 2)

-----------------------------------------------------------------------------
(* Properties of the helpers of src/utils.ts.                              *)

\* The helper fn has run on pure's arguments.
Returned(fn) == pure.fn = fn /\ "result" \in DOMAIN pure


\* C15: metadataToHeaders(m) returns exactly one header 'x-tokenlay-' + k
\* with value m[k] for every key k of m whose value is not undefined, key
\* case preserved and value unchanged, and no header for a key whose value
\* is undefined; the empty map yields the empty map, and the call returns
\* on every input.
C15_MetadataToHeadersExact ==
    /\ Called("metadataToHeaders") => ENABLED CallMetadataToHeaders
    /\ Returned("metadataToHeaders") =>
          LET m == pure.metadata
              r == pure.result
          IN  /\ \A k \in DOMAIN m :
                    IF m[k] # undefined
                    THEN /\ (HeaderPrefix \o k) \in DOMAIN r
                         /\ r[HeaderPrefix \o k] = m[k]
                    ELSE (HeaderPrefix \o k) \notin DOMAIN r
              /\ Cardinality(DOMAIN r) = Cardinality(DefinedKeys(m))
              /\ m = NoObject => r = NoObject

\* metadataToHeaders has returned for a map with a capitalised key that
\* has a value and a key whose value is undefined.
C15_Witness ==
    /\ Returned("metadataToHeaders")
    /\ "Tier" \in DOMAIN pure.metadata
    /\ pure.metadata["Tier"] = "user_123"
    /\ "userId" \in DOMAIN pure.metadata
    /\ pure.metadata["userId"] = undefined
    /\ DOMAIN pure.result = {"x-tokenlay-Tier"}


\* The header each field of the response metadata is decoded from.
FieldHeader ==
    [ ruleId |-> "x-tokenlay-rule-id",
      ruleAction |-> "x-tokenlay-rule-action",
      limitExceeded |-> "x-tokenlay-limit-exceeded",
      cost |-> "x-tokenlay-cost",
      tokensUsed |-> "x-tokenlay-tokens-used",
      inputTokens |-> "x-tokenlay-input-tokens",
      outputTokens |-> "x-tokenlay-output-tokens",
      duration |-> "x-tokenlay-duration",
      warnings |-> "x-tokenlay-warnings" ]

\* What parseTokenlayHeaders returns when no header is there; warnings is
\* undefined, that is, not a property with a value.
ResponseMetadataDefaults ==
    [ ruleId |-> undefined,
      ruleAction |-> "allow",
      limitExceeded |-> FALSE,
      cost |-> Num(0),
      tokensUsed |-> Num(0),
      inputTokens |-> Num(0),
      outputTokens |-> Num(0),
      duration |-> Num(0) ]

\* parseTokenlayHeaders has returned a record.
Decoded == Returned("parseTokenlayHeaders") /\ "error" \notin DOMAIN pure.result

\* C16: parseTokenlayHeaders applies a default for every field whose
\* header is missing: ruleAction 'allow', limitExceeded false, cost 0,
\* tokensUsed 0, inputTokens 0, outputTokens 0, duration 0, ruleId and
\* warnings undefined, all of them on the empty header map; and each
\* field is decoded from its own header alone, so a header present for one
\* field never changes the value decoded for another.
C16_DefaultsAndFieldIndependence ==
    Decoded =>
        LET h == pure.headers
            r == pure.result
        IN  /\ \A f \in DOMAIN ResponseMetadataDefaults :
                  /\ f \in DOMAIN r
                  /\ FieldHeader[f] \notin DOMAIN h =>
                        r[f] = ResponseMetadataDefaults[f]
            /\ FieldHeader["warnings"] \notin DOMAIN h =>
                  "warnings" \notin DOMAIN r
            /\ h = NoObject => r = ResponseMetadataDefaults
            /\ \A f \in DOMAIN FieldHeader :
                  LET alone == parseTokenlayHeaders(Pick(h, FieldHeader[f]))
                  IN  /\ f \in DOMAIN r <=> f \in DOMAIN alone
                      /\ f \in DOMAIN r => r[f] = alone[f]

\* parseTokenlayHeaders has decoded a map in which some headers are missing
\* and others carry values.
C16_Witness ==
    /\ Decoded
    /\ DOMAIN pure.headers = {"x-tokenlay-cost", "x-tokenlay-tokens-used",
                              "x-tokenlay-warnings"}
    /\ pure.result.tokensUsed = Num(18)
    /\ pure.result.inputTokens = Num(0)
    /\ pure.result.ruleAction = "allow"
    /\ "warnings" \in DOMAIN pure.result


\* C17: when the x-tokenlay-warnings header is present and its content is
\* not valid JSON, parseTokenlayHeaders fails with a parse error and
\* returns no record, whatever the other headers are; when the header is
\* absent or empty it never fails.
C17_InvalidWarningsThrow ==
    Returned("parseTokenlayHeaders") =>
        LET h == pure.headers
            name == FieldHeader["warnings"]
        IN  /\ (name \in DOMAIN h /\ h[name] \in InvalidJSONTexts) =>
                  pure.result = [error |-> "SyntaxError"]
            /\ (name \notin DOMAIN h \/ h[name] = "") =>
                  "error" \notin DOMAIN pure.result

\* parseTokenlayHeaders has failed on a warnings header that is not JSON,
\* in a map whose other headers are well formed.
C17_Witness ==
    /\ Returned("parseTokenlayHeaders")
    /\ "x-tokenlay-warnings" \in DOMAIN pure.headers
    /\ pure.headers["x-tokenlay-warnings"] = "[\"w1\","
    /\ "x-tokenlay-tokens-used" \in DOMAIN pure.headers
    /\ pure.headers["x-tokenlay-tokens-used"] = "18"
    /\ "error" \in DOMAIN pure.result


\* metadataToHeaders has run on a map with only defined string values and
\* parseTokenlayHeaders has run on the headers it returned.
EncodedThenDecoded ==
    /\ pure.fn = "metadataToHeaders"
    /\ "decoded" \in DOMAIN pure
    /\ \A k \in DOMAIN pure.metadata : pure.metadata[k] # undefined

\* A header name without the x-tokenlay- prefix.
StripPrefix(name) == SubSeq(name, Len(HeaderPrefix) + 1, Len(name))

\* C18 as stated: for all metadata maps m with only defined string values,
\* parseTokenlayHeaders(metadataToHeaders(m)) has the key set of m.
C18_RoundTripKeySet ==
    EncodedThenDecoded => DOMAIN pure.decoded = DOMAIN pure.metadata

\* C18: for all metadata maps m with only defined string values, the
\* headers of metadataToHeaders(m) with the x-tokenlay- prefix stripped
\* have the key set of m and m's values; parseTokenlayHeaders of these
\* headers fails only on a warnings entry and otherwise returns the fixed
\* response fields (and warnings, when decoded), whatever the keys of m.
C18_EncodeKeepsKeysDecodeHasFixedFields ==
    EncodedThenDecoded =>
        LET m == pure.metadata
            r == pure.result
            d == pure.decoded
        IN  /\ \A n \in DOMAIN r :
                  /\ StartsWith(n, 1, HeaderPrefix)
                  /\ StripPrefix(n) \in DOMAIN m
                  /\ r[n] = m[StripPrefix(n)]
            /\ {StripPrefix(n) : n \in DOMAIN r} = DOMAIN m
            /\ "error" \in DOMAIN d => "warnings" \in DOMAIN m
            /\ "error" \notin DOMAIN d =>
                  DOMAIN d \ {"warnings"} = DOMAIN ResponseMetadataDefaults

\* A map with two defined entries, neither of them a response field, has
\* been encoded and the headers decoded.
C18_Witness ==
    /\ EncodedThenDecoded
    /\ DOMAIN pure.metadata = {"userId", "Tier"}
    /\ DOMAIN pure.result = {"x-tokenlay-userId", "x-tokenlay-Tier"}
    /\ "error" \notin DOMAIN pure.decoded
    /\ pure.decoded.ruleAction = "allow"


\* The larger of n - 1 and 0.
AllButOne(n) == IF n > 0 THEN n - 1 ELSE 0

\* C19: buildTokenlayUrl(base, endpoint) removes exactly one trailing
\* slash of base, if any, and exactly one leading slash of endpoint, if
\* any, and joins them with '/v1/'; hence for every base b without a
\* trailing slash and endpoint e without a leading slash the four inputs
\* (b or b + '/') x (e or '/' + e) all yield b + '/v1/' + e.
C19_OneSlashStrippedEachSide ==
    Returned("buildTokenlayUrl") =>
        \A b \in JointFreeBases, e \in JointFreeEndpoints,
           tb \in 0..MaxSlashes, le \in 0..MaxSlashes :
            (/\ pure.baseUrl = b \o Slashes(tb)
             /\ pure.endpoint = Slashes(le) \o e) =>
                /\ pure.result = b \o Slashes(AllButOne(tb)) \o "/v1/"
                                   \o Slashes(AllButOne(le)) \o e
                /\ (tb <= 1 /\ le <= 1) => pure.result = b \o "/v1/" \o e

\* buildTokenlayUrl has joined a base ending with a slash and an endpoint
\* starting with one.
C19_Witness ==
    /\ Returned("buildTokenlayUrl")
    /\ pure.baseUrl = "https://api.tokenlay.com/"
    /\ pure.endpoint = "/chat/completions"
    /\ pure.result = "https://api.tokenlay.com/v1/chat/completions"


\* C20: mergeHeaders(g1..gn) returns a map whose key set is the union of
\* the keys of the defined groups and in which each key carries the value
\* from the last group containing it; undefined groups are skipped
\* without error and no argument map is modified.
C20_MergeHeadersLastWins ==
    /\ Called("mergeHeaders") => ENABLED CallMergeHeaders
    /\ Returned("mergeHeaders") =>
          LET gs == pure.passed
              r == pure.result
              defined == {i \in 1..Len(gs) : gs[i] # UndefinedGroup}
              holders(k) == {i \in defined : k \in DOMAIN gs[i]}
          IN  /\ DOMAIN r = UNION {DOMAIN gs[i] : i \in defined}
              /\ \A k \in DOMAIN r :
                    \E i \in holders(k) :
                        /\ \A j \in holders(k) : j <= i
                        /\ r[k] = gs[i][k]
              /\ pure.headerGroups = gs

\* mergeHeaders has merged a group, an undefined group and a later group
\* that has a key of the first with another value.
C20_Witness ==
    /\ Returned("mergeHeaders")
    /\ pure.passed = << "content-type" :> "application/json",
                        UndefinedGroup,
                        "content-type" :> "text/plain"
                            @@ "x-custom" :> "value" >>
    /\ pure.result = ("content-type" :> "text/plain" @@ "x-custom" :> "value")


\* The key is missing, undefined or the empty string.
KeyMissing(cfg, key) ==
    key \notin DOMAIN cfg \/ cfg[key] = undefined \/ cfg[key] = ""

\* C21: validateConfig checks the proxy key before the provider key: when
\* tokenlayKey is missing or empty, and so when both keys are, the error
\* names tokenlayKey; the error names providerApiKey only when tokenlayKey
\* is non-empty and providerApiKey is missing or empty; when both are
\* non-empty it does not throw.
C21_ProxyKeyCheckedFirst ==
    Returned("validateConfig") =>
        LET cfg == pure.config
            names(key) == StartsWith(pure.result, 1, key \o " is required")
        IN  /\ KeyMissing(cfg, "tokenlayKey") => names("tokenlayKey")
            /\ names("providerApiKey") <=>
                  (/\ ~KeyMissing(cfg, "tokenlayKey")
                   /\ KeyMissing(cfg, "providerApiKey"))
            /\ pure.result = "" <=>
                  (/\ ~KeyMissing(cfg, "tokenlayKey")
                   /\ ~KeyMissing(cfg, "providerApiKey"))

\* validateConfig has thrown on a configuration in which both keys are
\* missing or empty.
C21_Witness ==
    /\ Returned("validateConfig")
    /\ pure.config = [tokenlayKey |-> "", providerApiKey |-> ""]
    /\ pure.result # ""


\* C29 as stated: for every header map on which parseTokenlayHeaders
\* returns, the ruleAction of the returned record is one of allow, block,
\* warn, queue.
C29_RuleActionInClosedSet ==
    Decoded => pure.result.ruleAction \in {"allow", "block", "warn", "queue"}

\* The fields decoded with parseInt.
CountFields == {"tokensUsed", "inputTokens", "outputTokens", "duration"}

\* The number is an integer that is not negative.
IsNonNegativeInteger(v) == ~v.nan /\ v.den = 1 /\ v.num >= 0

-----------------------------------------------------------------------------
(* Properties of the control headers.                                      *)

\* C27 as stated: for every valid configuration, whatever keys the global
\* metadata and extraHeaders contain, the default header
\* x-tokenlay-provider-key equals the configured providerApiKey and
\* x-tokenlay-provider-base equals the effective providerApiBase; no
\* metadata entry or extra header replaces a control header's value.
C27_ControlHeadersNotReplaced ==
    phase = "constructed" =>
        LET headers == openaiClient.defaultHeaders
            effective == EffectiveConfig(options)
        IN  /\ headers["x-tokenlay-provider-key"] = effective.providerApiKey
            /\ headers["x-tokenlay-provider-base"] = effective.providerApiBase

-----------------------------------------------------------------------------
(* Frame properties of the updates.                                        *)

\* The step is a call of updateProviderKey.
IsUpdateProviderKeyStep ==
    /\ Len(updates') = Len(updates) + 1
    /\ updates'[Len(updates')].op = "updateProviderKey"

C23_UpdatesChangeOneField ==
    [][ /\ IsUpdateProviderKeyStep =>
              /\ config'.providerApiKey
                    = updates'[Len(updates')].providerApiKey
              /\ DOMAIN config' = DOMAIN config
              /\ \A f \in DOMAIN config \ {"providerApiKey"} :
                    config'[f] = config[f]
        /\ IsUpdateMetadataStep =>
              /\ DOMAIN config' \ {"metadata"} = DOMAIN config \ {"metadata"}
              /\ \A f \in DOMAIN config \ {"metadata"} :
                    config'[f] = config[f] ]_vars

\* updateProviderKey has replaced the key of a configuration that has
\* global metadata, extra headers and a timeout of its own.
C23_Witness ==
    /\ phase = "constructed"
    /\ Len(updates) = 1
    /\ updates[1].op = "updateProviderKey"
    /\ config.providerApiKey = "sk-new-key-789"
    /\ "metadata" \in DOMAIN config
    /\ config.metadata = [userId |-> "user_123", tier |-> "free"]
    /\ "extraHeaders" \in DOMAIN config
    /\ config.timeout = 30000

\* C26 as stated: in every reachable state of a constructed client, after
\* any sequence of updateMetadata, updateProviderKey and healthCheck
\* calls, the stored proxy credential and the stored provider credential
\* are both non-empty strings.
C26_StoredCredentialsNonEmpty ==
    phase = "constructed" =>
        /\ config.tokenlayKey # ""
        /\ config.providerApiKey # ""

-----------------------------------------------------------------------------
(* Frame properties of chat.completions.create.                            *)

\* A metadata key given to one call is in the headers sent for another
\* call only if that call gave it too or the construction-time default
\* headers have it.
CallMetadataStaysInCall ==
    LET defaults == DOMAIN buildDefaultHeaders(EffectiveConfig(options))
        own(v) == DefinedKeys(CallMetadata(wrappedCalls[v].call))
    IN  \A v, w \in 1..Len(wrappedCalls) :
            v # w =>
                \A k \in own(v) \ own(w) :
                    (HeaderPrefix \o k) \notin defaults
                        => (HeaderPrefix \o k) \notin
                                DOMAIN SentHeaders(wrappedCalls[w])

\* C25: per-call metadata affects that call only: a metadata key supplied
\* on one call never appears in the headers of any other call, and a step
\* of chat.completions.create changes neither the stored configuration
\* nor the wrapped client's default headers nor the params the caller
\* gave.
C25_CallMetadataAffectsOwnCallOnly ==
    /\ []CallMetadataStaysInCall
    /\ [][ calls' # calls =>
                /\ config' = config
                /\ openaiClient' = openaiClient
                /\ \A i \in 1..Len(calls) : calls'[i].params = calls[i].params
                /\ calls'[Len(calls')].params \in Params ]_vars

\* A call with a metadata key of its own and a call without metadata have
\* both been forwarded; only the first was sent with the key's header.
C25_Witness ==
    /\ Len(wrappedCalls) = 2
    /\ "feature" \in DefinedKeys(CallMetadata(1))
    /\ CallMetadata(2) = NoObject
    /\ "x-tokenlay-feature" \in DOMAIN SentHeaders(wrappedCalls[1])
    /\ "x-tokenlay-feature" \notin DOMAIN SentHeaders(wrappedCalls[2])

-----------------------------------------------------------------------------
(* Properties of updates made while calls are in flight.                   *)

\* The forwarded headers of every call are those of its own params, and a
\* resolved call carries the tagged response of its own wrapped call.
CallsFixedByOwnParams ==
    /\ \A n \in 1..Len(wrappedCalls) :
          /\ wrappedCalls[n].headers
                = buildRequestHeaders(calls[wrappedCalls[n].call].params)
          /\ wrappedCalls[n].client = NewOpenAI(EffectiveConfig(options))
    /\ \A i \in 1..Len(calls) :
          calls[i].status = "resolved" =>
              calls[i].response = TagResponse(calls[i].wrappedResponse)

\* C24: each chat call snapshots its headers at invocation: the
\* call-scoped headers the wrapped client receives are fixed by the params
\* given when the call started, and an updateMetadata or updateProviderKey
\* that runs while the call is in flight changes neither the headers of
\* that call nor the response and metadata it resolves to.
C24_InFlightCallsUnaffectedByUpdates ==
    [][ /\ updates' # updates =>
              /\ wrappedCalls' = wrappedCalls
              /\ calls' = calls
        /\ CallsFixedByOwnParams' ]_vars

\* The only call made carried metadata of its own; an update ran while it
\* was in flight, and it has resolved with a tagged response.
C24_Witness ==
    /\ Len(calls) = 1
    /\ Len(updates) = 1
    /\ calls[1].status = "resolved"
    /\ "metadata" \in DOMAIN calls[1].params
    /\ "_tokenlay" \in DOMAIN calls[1].response
    /\ wrappedCalls[1].headers = buildRequestHeaders(calls[1].params)


\* The construction-time metadata merged left to right with the defined
\* entries of the first n updates of the log.
RECURSIVE MergedUpdates(_)
MergedUpdates(n) ==
    IF n = 0 THEN OptionMap("metadata")
    ELSE LET before == MergedUpdates(n - 1)
             u == updates[n]
         IN  IF u.op # "updateMetadata" THEN before
             ELSE [k \in DOMAIN before \cup DefinedKeys(u.metadata) |->
                      IF k \in DefinedKeys(u.metadata)
                      THEN u.metadata[k]
                      ELSE before[k]]

\* C28: no update is lost: for any sequence updateMetadata(m1), ...,
\* updateMetadata(mn), interleaved in any way with in-flight chat and
\* healthCheck calls, the stored global metadata equals the
\* construction-time map merged left to right with the defined entries of
\* m1..mn in invocation order, and a key once stored is never removed.
C28_NoUpdateLost ==
    /\ [](phase = "constructed" =>
              StoredMetadata(config) = MergedUpdates(Len(updates)))
    /\ [][ phase = "constructed" =>
              DOMAIN StoredMetadata(config)
                  \subseteq DOMAIN StoredMetadata(config') ]_vars

\* Two updates were made on a client with construction-time metadata, with
\* a chat call and a health check in flight or settled; the second update
\* has an undefined entry and a new key.
C28_Witness ==
    /\ Len(updates) = 2
    /\ updates[1].metadata = [userId |-> "user_456", tier |-> "enterprise"]
    /\ updates[2].metadata = [tier |-> undefined, feature |-> "search"]
    /\ OptionMap("metadata") = [userId |-> "user_123", tier |-> "free"]
    /\ calls # <<>>
    /\ health # <<>>
    /\ config.metadata = [userId |-> "user_456", tier |-> "enterprise",
                          feature |-> "search"]

====
